---- MODULE Spec2Model ----
(***************************************************************************)
(* Model of one training session of the aim trainer: the GameController    *)
(* component of src/components/Game3D.tsx (target list kept in React state *)
(* and mirrored into targetsRef, the frame loop, handleShoot, the          *)
(* countdown) and handleGameFinish of the App component.                   *)
(*                                                                         *)
(* Units.  Lengths are integers in tenths of a world unit (radius 0.5 is   *)
(* 5, the bound 8 is 80).  Horizontal velocity is in whole units per       *)
(* second and the frame delta in tenths of a second, so that               *)
(* position + velocity * delta is again in tenths.  A camera orientation   *)
(* is an orthogonal frame of three integer vectors of common length        *)
(* CamNorm (forward, right, up); the unit vectors of the code are these    *)
(* divided by CamNorm.  The camera stays at the origin (Canvas camera      *)
(* position [0,0,0]; PointerLockControls only rotates it).                 *)
(***************************************************************************)
EXTENDS Integers, Sequences, FiniteSets, TLC

VARIABLES
    scenario,       \* prop scenario, fixed for the session
    targets,        \* useState targets, as of the last render
    queue,          \* setTargets updates not yet rendered
    targetsRef,     \* targetsRef.current
    effectPending,  \* a render committed and its [targets] effects have not run yet
    score,          \* useState score (HUD)
    shotsFired,     \* useState shotsFired (HUD)
    scoreRef,       \* scoreRef.current
    shotsFiredRef,  \* shotsFiredRef.current
    shotData,       \* shotDataRef.current, the shot log
    timeLeft,       \* useState timeLeft
    timerOn,        \* the setInterval timer is armed
    mounted,        \* GameController is mounted (mousedown listener attached)
    finishCalls,    \* number of times onFinish has been called
    lastStats,      \* App state lastStats (<<>> while null); its missData aliases shotData
    analysis        \* ResultsScreen: the analysis memo (<<>> while not mounted)

vars == << scenario, targets, queue, targetsRef, effectPending, score, shotsFired,
           scoreRef, shotsFiredRef, shotData, timeLeft, timerOn, mounted,
           finishCalls, lastStats, analysis >>

----------------------------------------------------------------------------
(* Bounds of the model *)

MaxShots == 2
MaxQueue == 1
MaxId == 2
XCap == 80
MaxLog == 10

(* Program constants *)

InitialTime == 30
Bound == 80
CamNorm == 85

Scenarios == {"GRIDSHOT", "TRACKING", "FLICKING"}

IdSet == 1..MaxId

\* Outcomes of the random placement of spawnTarget: x in [-5,5), y in [1,4), z in (-13,-8].
\* The first lies on the ray of the second camera below, the other 0.2 beside it.
RandPositions == { <<0, 13, -84>>, <<-2, 14, -90>> }

\* fixedPos of the initial TRACKING target.
FixedPos == <<0, 15, -100>>

\* Outcomes of (random sign) * (2 + random * 2), in units per second.
RandVelX == {-2, 2}

\* Frame deltas handed to the useFrame callback (tenths of a second).  At speed
\* 2 a frame of 4.1 s moves a target by 8.2: from x = -0.2 it reaches the bound,
\* from the bound it is reflected back, and from x = 0 both directions leave
\* the range.
Deltas == {41}

\* Camera orientations reachable with PointerLockControls (yaw and pitch, no roll):
\* looking straight ahead (no target is on that ray) and pitched up along
\* (0, 13, -84), the ray through the spawn positions above and 0.05 beside FixedPos.
Cameras ==
    { [fwd |-> <<0, 0, -85>>,   right |-> <<85, 0, 0>>,  up |-> <<0, 85, 0>>],
      [fwd |-> <<0, 13, -84>>,  right |-> <<85, 0, 0>>,  up |-> <<0, 84, 13>>] }

\* Another sample of the same inputs for the study of handleShoot alone.  The
\* replacement of a hit target is placed at the mirror image, about the plane
\* x = 0, of the second position above (the two are at the same angle from
\* every camera below).  The cameras are the two above and the same two turned
\* by half a circle, for which every target lies behind the camera; the last
\* one looks back along the line through <<0, 13, -84>>.
ShootPositions == { <<2, 14, -90>> }

ShootCameras ==
    Cameras \cup
    { [fwd |-> <<0, 0, 85>>,    right |-> <<-85, 0, 0>>, up |-> <<0, 85, 0>>],
      [fwd |-> <<0, -13, 84>>,  right |-> <<-85, 0, 0>>, up |-> <<0, 84, 13>>] }

----------------------------------------------------------------------------
(* Vector helpers (THREE.Vector3) *)

Dot(a, b) == a[1] * b[1] + a[2] * b[2] + a[3] * b[3]

NormSq(a) == Dot(a, a)

Abs(n) == IF n < 0 THEN -n ELSE n

\* a/b < c/d for a, c >= 0 and b, d > 0, without forming the cross products.
RECURSIVE FracLess(_, _, _, _)
FracLess(a, b, c, d) ==
    LET qa == a \div b
        qc == c \div d
        ra == a % b
        rc == c % d
    IN  IF qa # qc THEN qa < qc
        ELSE IF rc = 0 THEN FALSE
        ELSE IF ra = 0 THEN TRUE
        ELSE FracLess(d, rc, b, ra)

----------------------------------------------------------------------------
(* spawnTarget *)

\* The velocity the scenario assigns; rv is the outcome of the random draw.
Velocity(sc, rv) == IF sc = "TRACKING" THEN <<rv, 0, 0>> ELSE <<0, 0, 0>>

\* The draws that make a difference to the velocity.
VelChoices(sc) == IF sc = "TRACKING" THEN RandVelX ELSE {0}

\* One radius for every scenario.
RadiusSame(sc) == 5

Radius(sc) == IF sc = "FLICKING" THEN 3 ELSE 5

NewTarget(sc, id, pos, rv) ==
    [ id |-> id, position |-> pos, active |-> TRUE,
      velocity |-> Velocity(sc, rv), radius |-> Radius(sc) ]

\* currentList.push(newTarget)
spawnTarget(currentList, sc, id, pos, rv) ==
    Append(currentList, NewTarget(sc, id, pos, rv))

\* Number of targets the mount effect spawns.
InitialCount(sc) == IF sc = "GRIDSHOT" THEN 3 ELSE 1

\* The lists the mount effect can build, over all outcomes of the random draws.
InitialTargetLists(sc) ==
    IF sc = "GRIDSHOT"
    THEN { spawnTarget(spawnTarget(spawnTarget(<<>>, sc, i1, p1, 0), sc, i2, p2, 0),
                       sc, i3, p3, 0) :
             <<i1, i2, i3, p1, p2, p3>> \in
                 IdSet \X IdSet \X IdSet \X RandPositions \X RandPositions \X RandPositions }
    ELSE IF sc = "TRACKING"
    THEN { spawnTarget(<<>>, sc, i, FixedPos, rv) : <<i, rv>> \in IdSet \X RandVelX }
    ELSE { spawnTarget(<<>>, sc, i, p, 0) : <<i, p>> \in IdSet \X RandPositions }

----------------------------------------------------------------------------
(* useFrame callback: one target's step, and the queued updates *)

\* A step that also lets the target sink by a tenth.
TickTargetDrift(t, delta) ==
    LET x    == t.position[1]
        v    == t.velocity[1]
        newX == x + v * delta
        out  == newX > Bound \/ newX < -Bound
        velX == IF out THEN -v ELSE v
        resX == IF out THEN x + velX * delta ELSE newX
    IN  [ t EXCEPT !.position = <<resX, t.position[2] - 1, t.position[3]>>,
                   !.velocity = <<velX, t.velocity[2], t.velocity[3]>> ]

\* A step that stops at the bound instead of reflecting within the tick.
TickTargetClamp(t, delta) ==
    LET x    == t.position[1]
        v    == t.velocity[1]
        newX == x + v * delta
        out  == newX > Bound \/ newX < -Bound
        velX == IF out THEN -v ELSE v
        resX == IF newX > Bound THEN Bound ELSE IF newX < -Bound THEN -Bound ELSE newX
    IN  [ t EXCEPT !.position = <<resX, t.position[2], t.position[3]>>,
                   !.velocity = <<velX, t.velocity[2], t.velocity[3]>> ]

TickTarget(t, delta) ==
    LET x    == t.position[1]
        v    == t.velocity[1]
        newX == x + v * delta
        out  == newX > Bound \/ newX < -Bound
        velX == IF out THEN -v ELSE v
        resX == IF out THEN x + velX * delta ELSE newX
    IN  [ t EXCEPT !.position = <<resX, t.position[2], t.position[3]>>,
                   !.velocity = <<velX, t.velocity[2], t.velocity[3]>> ]

\* prev.map(t => ...)
TickList(list, delta) == [ i \in 1..Len(list) |-> TickTarget(list[i], delta) ]

\* One queued setTargets update applied to the state.
ApplyUpdate(prev, u) ==
    IF u.type = "map" THEN TickList(prev, u.delta) ELSE u.list

RECURSIVE ApplyQueue(_, _)
ApplyQueue(prev, q) ==
    IF q = <<>> THEN prev ELSE ApplyQueue(ApplyUpdate(prev, Head(q)), Tail(q))

\* The target list the next render will show: the latest Target Store contents.
LatestTargets == ApplyQueue(targets, queue)

----------------------------------------------------------------------------
(* handleShoot: the pass over activeTargets *)

CamNormSq == CamNorm * CamNorm

\* toTarget = targetPos - camera.position, the camera being at the origin.
ToTarget(t) == t.position

\* CamNormSq * distToCenter^2.  closestPointOnRay is the orthogonal projection
\* of the centre on the line of the ray, so distToCenter^2 is
\* |toTarget|^2 - projectionLength^2, with projectionLength = toTarget.fwd / CamNorm.
DistToCenterSq(t, cam) ==
    CamNormSq * NormSq(ToTarget(t)) - Dot(ToTarget(t), cam.fwd) * Dot(ToTarget(t), cam.fwd)

\* A hit test that also asks for the centre to lie in front of the camera.
HitTestFront(t, cam) ==
    /\ DistToCenterSq(t, cam) < t.radius * t.radius * CamNormSq
    /\ Dot(ToTarget(t), cam.fwd) > 0

\* distToCenter < target.radius
HitTest(t, cam) == DistToCenterSq(t, cam) < t.radius * t.radius * CamNormSq

\* rayDir.angleTo(toTarget.normalize()) of a is smaller than that of b: the
\* cosine dot/|toTarget| of a is the larger one (a zero vector normalises to
\* zero and angleTo then answers a right angle, cosine 0).
AngleLess(a, b, cam) ==
    LET pa == Dot(ToTarget(a), cam.fwd)
        pb == Dot(ToTarget(b), cam.fwd)
        qa == IF NormSq(ToTarget(a)) = 0 THEN 1 ELSE NormSq(ToTarget(a))
        qb == IF NormSq(ToTarget(b)) = 0 THEN 1 ELSE NormSq(ToTarget(b))
    IN  IF pa >= 0 /\ pb < 0 THEN TRUE
        ELSE IF pa < 0 /\ pb >= 0 THEN FALSE
        ELSE IF pa >= 0 THEN FracLess(pb * pb, qb, pa * pa, qa)
        ELSE FracLess(pa * pa, qa, pb * pb, qb)

\* The pass with a hit that is kept once found (the first hit wins).
RECURSIVE ScanFirst(_, _, _)
ScanFirst(list, cam, n) ==
    IF n = 0 THEN [ hitFound |-> FALSE, hitTargetId |-> 0, closest |-> 0 ]
    ELSE LET acc == ScanFirst(list, cam, n - 1)
             t   == list[n]
             h   == HitTest(t, cam)
             c   == acc.closest = 0 \/ AngleLess(t, list[acc.closest], cam)
         IN  [ hitFound    |-> acc.hitFound \/ h,
               hitTargetId |-> IF h /\ ~acc.hitFound THEN t.id ELSE acc.hitTargetId,
               closest     |-> IF c THEN n ELSE acc.closest ]

\* The pass with angle <= minAngularDist: the last of equal angles is kept.
RECURSIVE ScanLastTie(_, _, _)
ScanLastTie(list, cam, n) ==
    IF n = 0 THEN [ hitFound |-> FALSE, hitTargetId |-> 0, closest |-> 0 ]
    ELSE LET acc == ScanLastTie(list, cam, n - 1)
             t   == list[n]
             h   == HitTest(t, cam)
             c   == acc.closest = 0 \/ ~AngleLess(list[acc.closest], t, cam)
         IN  [ hitFound    |-> acc.hitFound \/ h,
               hitTargetId |-> IF h THEN t.id ELSE acc.hitTargetId,
               closest     |-> IF c THEN n ELSE acc.closest ]

\* State of the forEach after the first n targets: hitFound, hitTargetId (0 is
\* the initial "") and closest, the index of closestTarget (0 is null).
RECURSIVE Scan(_, _, _)
Scan(list, cam, n) ==
    IF n = 0 THEN [ hitFound |-> FALSE, hitTargetId |-> 0, closest |-> 0 ]
    ELSE LET acc == Scan(list, cam, n - 1)
             t   == list[n]
             h   == HitTest(t, cam)
             c   == acc.closest = 0 \/ AngleLess(t, list[acc.closest], cam)
         IN  [ hitFound    |-> acc.hitFound \/ h,
               hitTargetId |-> IF h THEN t.id ELSE acc.hitTargetId,
               closest     |-> IF c THEN n ELSE acc.closest ]

Resolve(list, cam) == Scan(list, cam, Len(list))

\* activeTargets.filter(t => t.id !== hitTargetId)
RECURSIVE FilterOut(_, _)
FilterOut(list, id) ==
    IF list = <<>> THEN <<>>
    ELSE IF Head(list).id # id THEN <<Head(list)>> \o FilterOut(Tail(list), id)
    ELSE FilterOut(Tail(list), id)

----------------------------------------------------------------------------
(* handleShoot: the shot records.  The timestamp field (Date.now()) is left *)
(* out: no operation reads it.                                             *)

\* A record of a hit that is flagged as a miss.
HitRecordAsMiss(id) == [ hit |-> FALSE, targetId |-> id ]

HitRecord(id) == [ hit |-> TRUE, targetId |-> id ]

\* The miss record for the intended target t.  intersectPlane leaves
\* `intersection` at the origin when the plane lies behind the ray (s < 0),
\* else it is fwd * s / CamNormSq, with s = CamNorm * (distance along the ray).
\* relativeX and relativeY are kept multiplied by CamNorm^3 and
\* distanceFromCenter as CamNormSq times its square.
MissRecord(t, cam) ==
    LET P    == t.position
        s    == Dot(P, cam.fwd)
        sHit == IF s >= 0 THEN s ELSE 0
    IN  [ hit |-> FALSE,
          relativeX |-> sHit * Dot(cam.fwd, cam.right) - CamNormSq * Dot(P, cam.right),
          relativeY |-> sHit * Dot(cam.fwd, cam.up) - CamNormSq * Dot(P, cam.up),
          distanceFromCenter |-> sHit * sHit - 2 * sHit * s + CamNormSq * NormSq(P),
          targetVelocityX |-> t.velocity[1] ]

\* A record for the empty list that carries zero offsets.
EmptyMissRecordWithOffsets ==
    [ hit |-> FALSE, relativeX |-> 0, relativeY |-> 0, distanceFromCenter |-> 0 ]

EmptyMissRecord == [ hit |-> FALSE ]

\* The record handleShoot appends for the list it reads and the camera.
ShotRecord(list, cam) ==
    LET r == Resolve(list, cam)
    IN  IF r.hitFound THEN HitRecord(r.hitTargetId)
        ELSE IF r.closest # 0 THEN MissRecord(list[r.closest], cam)
        ELSE EmptyMissRecord

\* A log that takes the new record at the front (unshift for push).
PushShotFront(log, rec) == << rec >> \o log

\* shotDataRef.current.push(record)
PushShot(log, rec) == Append(log, rec)

\* A respawn that places the TRACKING replacement where the initial target was.
RespawnAsInitial(list, hitId, sc, id, pos, rv) ==
    spawnTarget(FilterOut(list, hitId), sc, id,
                IF sc = "TRACKING" THEN FixedPos ELSE pos, rv)

\* newTargets after filter and spawnTarget(newTargets)
Respawn(list, hitId, sc, id, pos, rv) ==
    spawnTarget(FilterOut(list, hitId), sc, id, pos, rv)

----------------------------------------------------------------------------
(* ResultsScreen: the analysis of the shot log.  A comparison with 1.5 or   *)
(* 0.5 times a count is made on twice the values.                           *)

PerfectMsg == "Perfect run! Your sensitivity is well-tuned."
BalancedMsg == "Your aim is balanced. Continue training to build consistency."
OvershootMsg ==
    "You consistently OVERSHOOT moving targets. \nTry LOWERING your sensitivity or DPI slightly."
UndershootMsg ==
    "You consistently UNDERSHOOT moving targets. \nTry INCREASING your sensitivity or DPI slightly."
LeftMsg ==
    "You consistently miss to the LEFT. Check your initial crosshair placement or grip stability."
RightMsg == "You consistently miss to the RIGHT. You might be pulling your mouse too fast."
VerticalMsg ==
    "Significant vertical drift detected. Check your posture and mousepad friction."
ScatterMsg ==
    "Wide horizontal scatter detected. Your sensitivity might be too high for precise micro-adjustments."

\* The stored value of an offset of one world unit (ten tenths, times CamNorm^3).
OffsetUnit == 10 * CamNorm * CamNorm * CamNorm

\* An offset that takes a record without offsets for a miss to the left.
RelXMissingAsLeft(m) == IF "relativeX" \in DOMAIN m THEN m.relativeX ELSE -1

\* (m.relativeX || 0) and (m.relativeY || 0)
RelX(m) == IF "relativeX" \in DOMAIN m THEN m.relativeX ELSE 0
RelY(m) == IF "relativeY" \in DOMAIN m THEN m.relativeY ELSE 0

\* stats.missData.filter(s => !s.hit)
Misses(missData) == SelectSeq(missData, LAMBDA sh : ~sh.hit)

\* misses.reduce((acc, m) => acc + Math.abs(m.relativeX || 0), 0)
RECURSIVE SumAbsRelX(_)
SumAbsRelX(misses) ==
    IF misses = <<>> THEN 0 ELSE Abs(RelX(Head(misses))) + SumAbsRelX(Tail(misses))

\* The tracking heuristic with thresholds that are reached, not exceeded.
TrackingRecommendationAtLeast(overshoots, undershoots) ==
    IF 2 * overshoots >= 3 * undershoots /\ overshoots >= 3 THEN OvershootMsg
    ELSE IF 2 * undershoots >= 3 * overshoots /\ undershoots >= 3 THEN UndershootMsg
    ELSE BalancedMsg

TrackingRecommendation(overshoots, undershoots) ==
    IF 2 * overshoots > 3 * undershoots /\ overshoots > 3 THEN OvershootMsg
    ELSE IF 2 * undershoots > 3 * overshoots /\ undershoots > 3 THEN UndershootMsg
    ELSE BalancedMsg

\* The heuristic with a horizontal bias that only has to reach half the misses.
AimRecommendationAtLeast(misses, left, right, top, bottom) ==
    LET totalMisses    == Len(misses)
        horizontalBias == Abs(left - right)
        verticalBias   == Abs(top - bottom)
    IN  IF 2 * horizontalBias >= totalMisses
        THEN (IF left > right THEN LeftMsg ELSE RightMsg)
        ELSE IF 2 * verticalBias > totalMisses THEN VerticalMsg
        ELSE IF 2 * SumAbsRelX(misses) > 3 * OffsetUnit * totalMisses THEN ScatterMsg
        ELSE BalancedMsg

\* Gridshot/Flicking heuristic; avgSpread > 1.5 is sum > 1.5 * totalMisses.
AimRecommendation(misses, left, right, top, bottom) ==
    LET totalMisses    == Len(misses)
        horizontalBias == Abs(left - right)
        verticalBias   == Abs(top - bottom)
    IN  IF 2 * horizontalBias > totalMisses
        THEN (IF left > right THEN LeftMsg ELSE RightMsg)
        ELSE IF 2 * verticalBias > totalMisses THEN VerticalMsg
        ELSE IF 2 * SumAbsRelX(misses) > 3 * OffsetUnit * totalMisses THEN ScatterMsg
        ELSE BalancedMsg

\* Counts that take a miss with a zero horizontal offset for an overshoot.
AnalyzeMissesZeroOffset(misses, sc) ==
    LET left   == Len(SelectSeq(misses, LAMBDA m : RelX(m) < 0))
        right  == Len(SelectSeq(misses, LAMBDA m : RelX(m) > 0))
        top    == Len(SelectSeq(misses, LAMBDA m : RelY(m) > 0))
        bottom == Len(SelectSeq(misses, LAMBDA m : RelY(m) < 0))
        trackingMisses == SelectSeq(misses, LAMBDA m : "targetVelocityX" \in DOMAIN m)
        overshoots ==
            IF sc = "TRACKING"
            THEN Len(SelectSeq(trackingMisses,
                       LAMBDA m : \/ (m.targetVelocityX > 0 /\ RelX(m) >= 0)
                                  \/ (m.targetVelocityX < 0 /\ RelX(m) <= 0)))
            ELSE 0
        undershoots ==
            IF sc = "TRACKING"
            THEN Len(SelectSeq(trackingMisses,
                       LAMBDA m : \/ (m.targetVelocityX > 0 /\ RelX(m) < 0)
                                  \/ (m.targetVelocityX < 0 /\ RelX(m) > 0)))
            ELSE 0
    IN  [ left |-> left, right |-> right, top |-> top, bottom |-> bottom,
          overshoots |-> overshoots, undershoots |-> undershoots,
          recommendation |->
              IF sc = "TRACKING"
              THEN TrackingRecommendation(overshoots, undershoots)
              ELSE AimRecommendation(misses, left, right, top, bottom) ]

\* The counts and the recommendation once there is a miss.
AnalyzeMisses(misses, sc) ==
    LET left   == Len(SelectSeq(misses, LAMBDA m : RelX(m) < 0))
        right  == Len(SelectSeq(misses, LAMBDA m : RelX(m) > 0))
        top    == Len(SelectSeq(misses, LAMBDA m : RelY(m) > 0))
        bottom == Len(SelectSeq(misses, LAMBDA m : RelY(m) < 0))
        trackingMisses == SelectSeq(misses, LAMBDA m : "targetVelocityX" \in DOMAIN m)
        overshoots ==
            IF sc = "TRACKING"
            THEN Len(SelectSeq(trackingMisses,
                       LAMBDA m : \/ (m.targetVelocityX > 0 /\ RelX(m) > 0)
                                  \/ (m.targetVelocityX < 0 /\ RelX(m) < 0)))
            ELSE 0
        undershoots ==
            IF sc = "TRACKING"
            THEN Len(SelectSeq(trackingMisses,
                       LAMBDA m : \/ (m.targetVelocityX > 0 /\ RelX(m) < 0)
                                  \/ (m.targetVelocityX < 0 /\ RelX(m) > 0)))
            ELSE 0
    IN  [ left |-> left, right |-> right, top |-> top, bottom |-> bottom,
          overshoots |-> overshoots, undershoots |-> undershoots,
          recommendation |->
              IF sc = "TRACKING"
              THEN TrackingRecommendation(overshoots, undershoots)
              ELSE AimRecommendation(misses, left, right, top, bottom) ]

\* An analysis without the early return for a log without misses.
AnalyzeNoEarlyReturn(missData, sc) == AnalyzeMisses(Misses(missData), sc)

\* The analysis memo of ResultsScreen for stats.missData and stats.scenario.
Analyze(missData, sc) ==
    IF Len(Misses(missData)) = 0
    THEN [ left |-> 0, right |-> 0, top |-> 0, bottom |-> 0,
           overshoots |-> 0, undershoots |-> 0, recommendation |-> PerfectMsg ]
    ELSE AnalyzeMisses(Misses(missData), sc)

----------------------------------------------------------------------------
(* The session *)

\* After the first render and its effects: the mount effect has queued
\* setTargets(initialTargets) and armed the timer; the [targets] effect, which
\* runs after it with the first render's empty list, has left targetsRef empty.
Init ==
    /\ scenario \in Scenarios
    /\ targets = <<>>
    /\ \E l \in InitialTargetLists(scenario) : queue = << [type |-> "set", list |-> l] >>
    /\ targetsRef = <<>>
    /\ effectPending = FALSE
    /\ score = 0
    /\ shotsFired = 0
    /\ scoreRef = 0
    /\ shotsFiredRef = 0
    /\ shotData = <<>>
    /\ timeLeft = InitialTime
    /\ timerOn = TRUE
    /\ mounted = TRUE
    /\ finishCalls = 0
    /\ lastStats = <<>>
    /\ analysis = <<>>

\* Number of frame updates waiting in the queue.
RECURSIVE MapCount(_)
MapCount(q) ==
    IF q = <<>> THEN 0
    ELSE (IF Head(q).type = "map" THEN 1 ELSE 0) + MapCount(Tail(q))

InRange(list) == \A i \in 1..Len(list) : Abs(list[i].position[1]) <= XCap

\* useFrame callback with elapsed time delta.
Tick(delta) ==
    /\ mounted
    /\ IF scenario = "TRACKING"
       THEN /\ MapCount(queue) < MaxQueue
            /\ InRange(LatestTargets)
            /\ queue' = Append(queue, [type |-> "map", delta |-> delta])
       ELSE UNCHANGED queue
    /\ UNCHANGED << scenario, targets, targetsRef, effectPending, score, shotsFired,
                    scoreRef, shotsFiredRef, shotData, timeLeft, timerOn, mounted,
                    finishCalls, lastStats, analysis >>

\* A render of GameController: the queued updates are applied to the state.
Render ==
    /\ mounted
    /\ ~effectPending
    /\ queue # <<>> \/ score # scoreRef \/ shotsFired # shotsFiredRef
    /\ targets' = ApplyQueue(targets, queue)
    /\ queue' = <<>>
    /\ effectPending' = (queue # <<>>)
    /\ score' = scoreRef
    /\ shotsFired' = shotsFiredRef
    /\ UNCHANGED << scenario, targetsRef, scoreRef, shotsFiredRef, shotData, timeLeft,
                    timerOn, mounted, finishCalls, lastStats, analysis >>

\* The [targets] effects after a render that changed the list.
SyncEffect ==
    /\ mounted
    /\ effectPending
    /\ targetsRef' = targets
    /\ effectPending' = FALSE
    /\ UNCHANGED << scenario, targets, queue, score, shotsFired, scoreRef, shotsFiredRef,
                    shotData, timeLeft, timerOn, mounted, finishCalls, lastStats, analysis >>

\* mousedown: handleShoot with the camera as it is, and the outcomes of the
\* random draws of the respawn.
Fire(cam, id, pos, rv) ==
    /\ mounted
    /\ shotsFiredRef < MaxShots
    /\ shotsFiredRef' = shotsFiredRef + 1
    /\ LET activeTargets == targetsRef
           r == Resolve(activeTargets, cam)
       IN  /\ shotData' = PushShot(shotData, ShotRecord(activeTargets, cam))
           /\ IF r.hitFound
              THEN /\ scoreRef' = scoreRef + 1
                   /\ queue' = Append(queue,
                          [type |-> "set",
                           list |-> Respawn(activeTargets, r.hitTargetId, scenario, id, pos, rv)])
              ELSE UNCHANGED << scoreRef, queue >>
    /\ UNCHANGED << scenario, targets, targetsRef, effectPending, score, shotsFired,
                    timeLeft, timerOn, mounted, finishCalls, lastStats, analysis >>

\* Stats whose accuracy is the quotient also when no shot was fired (0 / 0).
SessionStatsNoGuard(sc, shots, hits) ==
    [ score |-> sc, shotsFired |-> shots, shotsHit |-> hits,
      accuracy |-> <<hits * 100, shots>>,
      scenario |-> scenario ]

\* handleGameFinish: the stats object; its missData is the shotDataRef array itself.
SessionStats(sc, shots, hits) ==
    [ score |-> sc, shotsFired |-> shots, shotsHit |-> hits,
      accuracy |-> IF shots > 0 THEN <<hits * 100, shots>> ELSE <<0, 1>>,
      scenario |-> scenario ]

\* A timer callback that ends the session without clearing the interval.
CountdownNoClear ==
    /\ mounted
    /\ timerOn
    /\ IF timeLeft <= 1
       THEN /\ finishCalls' = finishCalls + 1
            /\ lastStats' = SessionStats(scoreRef, shotsFiredRef, scoreRef)
            /\ timeLeft' = 0
            /\ UNCHANGED timerOn
       ELSE /\ timeLeft' = timeLeft - 1
            /\ UNCHANGED << timerOn, finishCalls, lastStats >>
    /\ UNCHANGED << scenario, targets, queue, targetsRef, effectPending, score, shotsFired,
                    scoreRef, shotsFiredRef, shotData, mounted, analysis >>

\* One firing of the one-second interval timer.
Countdown ==
    /\ mounted
    /\ timerOn
    /\ IF timeLeft <= 1
       THEN /\ timerOn' = FALSE
            /\ finishCalls' = finishCalls + 1
            /\ lastStats' = SessionStats(scoreRef, shotsFiredRef, scoreRef)
            /\ timeLeft' = 0
       ELSE /\ timeLeft' = timeLeft - 1
            /\ UNCHANGED << timerOn, finishCalls, lastStats >>
    /\ UNCHANGED << scenario, targets, queue, targetsRef, effectPending, score, shotsFired,
                    scoreRef, shotsFiredRef, shotData, mounted, analysis >>

\* The App renders RESULTS: Game3D is unmounted, its listener and timer removed,
\* and ResultsScreen is mounted and computes its analysis of lastStats, whose
\* missData is the shot log.
Unmount ==
    /\ mounted
    /\ lastStats # <<>>
    /\ mounted' = FALSE
    /\ timerOn' = FALSE
    /\ analysis' = Analyze(shotData, lastStats.scenario)
    /\ UNCHANGED << scenario, targets, queue, targetsRef, effectPending, score, shotsFired,
                    scoreRef, shotsFiredRef, shotData, timeLeft, finishCalls, lastStats >>

Next ==
    \/ \E d \in Deltas : Tick(d)
    \/ Render
    \/ SyncEffect
    \/ \E cam \in Cameras, id \in IdSet, pos \in RandPositions, rv \in VelChoices(scenario) :
           Fire(cam, id, pos, rv)
    \/ Countdown
    \/ Unmount

Spec == Init /\ [][Next]_vars

\* The countdown beside a session without frame updates in which every
\* replacement gets the same id and place.  The timer keeps firing: as long as
\* the interval is not cleared the browser runs its callback again.
NextTimer ==
    \/ Render
    \/ SyncEffect
    \/ \E cam \in Cameras, rv \in VelChoices(scenario) : Fire(cam, 1, <<0, 13, -84>>, rv)
    \/ Countdown
    \/ Unmount

SpecTimer == Init /\ [][NextTimer]_vars /\ WF_vars(Countdown)

\* A miss record with offsets of x and y tenths from the centre of a target
\* moving at v, in the representation of MissRecord.
MissAt(x, y, v) ==
    [ hit |-> FALSE,
      relativeX |-> x * CamNorm * CamNorm * CamNorm,
      relativeY |-> y * CamNorm * CamNorm * CamNorm,
      distanceFromCenter |-> CamNormSq * (x * x + y * y),
      targetVelocityX |-> v ]

\* The records the sampled logs are made of: a hit, a miss without offsets and
\* five misses with offsets; the velocity is the one the scenario gives.
LogKinds(sc) ==
    IF sc = "TRACKING"
    THEN << HitRecord(1), EmptyMissRecord, MissAt(20, 0, 2), MissAt(-20, 0, -2),
            MissAt(-20, 0, 2), MissAt(20, 0, -2), MissAt(0, 5, 2) >>
    ELSE << HitRecord(1), EmptyMissRecord, MissAt(-20, 0, 0), MissAt(20, 0, 0),
            MissAt(5, 0, 0), MissAt(0, 5, 0), MissAt(0, -5, 0) >>

Repeat(rec, n) == [ i \in 1..n |-> rec ]

\* The logs of at most budget records with the records of each kind in a row.
RECURSIVE LogsOver(_, _)
LogsOver(kinds, budget) ==
    IF kinds = <<>> THEN { <<>> }
    ELSE UNION { { Repeat(Head(kinds), n) \o rest :
                     rest \in LogsOver(Tail(kinds), budget - n) } : n \in 0..budget }

\* The moment onFinish has been called, for a sample of the logs a session can
\* have written: the counters agree with the log and the targets are a list
\* of the scenario.
InitResults ==
    /\ scenario \in Scenarios
    /\ shotData \in LogsOver(LogKinds(scenario), MaxLog)
    /\ targets = CHOOSE l \in InitialTargetLists(scenario) : TRUE
    /\ targetsRef = targets
    /\ queue = <<>>
    /\ effectPending = FALSE
    /\ scoreRef = Len(SelectSeq(shotData, LAMBDA sh : sh.hit))
    /\ shotsFiredRef = Len(shotData)
    /\ score = scoreRef
    /\ shotsFired = shotsFiredRef
    /\ timeLeft = 0
    /\ timerOn = FALSE
    /\ mounted = TRUE
    /\ finishCalls = 1
    /\ lastStats = SessionStats(scoreRef, shotsFiredRef, scoreRef)
    /\ analysis = <<>>

\* The results of a finished session: the App shows ResultsScreen.
SpecResults == InitResults /\ [][Unmount]_vars

\* The session while it is played: the frame loop, renders and shots.
NextPlay ==
    \/ \E d \in Deltas : Tick(d)
    \/ Render
    \/ SyncEffect
    \/ \E cam \in Cameras, id \in IdSet, pos \in RandPositions, rv \in VelChoices(scenario) :
           Fire(cam, id, pos, rv)

SpecPlay == Init /\ [][NextPlay]_vars

\* handleShoot under the second sample of cameras and spawn positions, with the
\* renders that make the list visible to it; no frame moves a target.
NextShoot ==
    \/ Render
    \/ SyncEffect
    \/ \E cam \in ShootCameras, id \in IdSet, pos \in ShootPositions,
          rv \in VelChoices(scenario) :
           Fire(cam, id, pos, rv)

SpecShoot == Init /\ [][NextShoot]_vars

----------------------------------------------------------------------------
(* Vocabulary of the properties *)

Last(seq) == seq[Len(seq)]

\* A step in which handleShoot ran, and one in which it found a hit.
FireStep == shotsFiredRef' = shotsFiredRef + 1
HitStep == scoreRef' = scoreRef + 1

\* Indices of the targets of list that satisfy the hit test of the ray of cam.
HitIndices(list, cam) == { i \in 1..Len(list) : HitTest(list[i], cam) }

SetMax(S) == CHOOSE m \in S : \A k \in S : k <= m
SetMin(S) == CHOOSE m \in S : \A k \in S : m <= k

\* The targets of list whose id is not id, in order.
Survivors(list, id) == SelectSeq(list, LAMBDA t : t.id # id)

\* The list a hit has just handed to setTargets.
WrittenBack == Last(queue).list

\* The record just logged is the one handleShoot logs when the camera is cam.
FiredWith(cam) == Last(shotData') = ShotRecord(targetsRef, cam)

\* The line of the ray passes through the centre of t.
Centered(t, cam) == DistToCenterSq(t, cam) = 0

\* Ray.intersectPlane finds no point: the ray is parallel to the plane and its
\* origin is off the plane, or the plane lies behind the origin.  The plane is
\* the one through the centre of t with the view direction as its normal.
NoIntersection(t, cam) ==
    IF Dot(cam.fwd, cam.fwd) = 0
    THEN Dot(t.position, cam.fwd) # 0
    ELSE Dot(t.position, cam.fwd) < 0

\* A step in which ResultsScreen computed its analysis.
ResultsStep == analysis = <<>> /\ analysis' # <<>>

\* Indices of the miss records of the log, and of those among them that carry
\* the offset named field.
MissIndices(log) == { i \in 1..Len(log) : ~log[i].hit }
WithOffset(log, field) == { i \in MissIndices(log) : field \in DOMAIN log[i] }

\* The sum of |relativeX| over the first n records of the log, a record that is
\* a hit or has no relativeX counting for 0.
RECURSIVE SpreadUpTo(_, _)
SpreadUpTo(log, n) ==
    IF n = 0 THEN 0
    ELSE SpreadUpTo(log, n - 1)
         + (IF n \in WithOffset(log, "relativeX") THEN Abs(log[n].relativeX) ELSE 0)

\* A step in which the frame callback queued its update of the targets.
TickStep ==
    /\ Len(queue') = Len(queue) + 1
    /\ SubSeq(queue', 1, Len(queue)) = queue
    /\ Last(queue').type = "map"

\* The radius and the velocity of t are those the scenario gives at spawn.
ShapeOfScenario(t) ==
    /\ t.radius = (IF scenario = "FLICKING" THEN 3 ELSE 5)
    /\ t.velocity[2] = 0
    /\ t.velocity[3] = 0
    /\ IF scenario = "TRACKING"
       THEN Abs(t.velocity[1]) >= 2 /\ Abs(t.velocity[1]) <= 4
       ELSE t.velocity[1] = 0

\* A step in which onFinish was called.
FinishStep == finishCalls' = finishCalls + 1

\* Number of hit records of the log.
HitCount(log) == Cardinality({ i \in 1..Len(log) : log[i].hit })

\* The first index, in the order of the list, among the targets no other
\* target is at a smaller angle than.
MinAngleFirst(list, cam) ==
    SetMin({ i \in 1..Len(list) :
               \A j \in 1..Len(list) : ~AngleLess(list[j], list[i], cam) })

----------------------------------------------------------------------------
(* C1: the shot log holds one record per fired shot, every fire appends its  *)
(* record at the end of the log, and records in the log are never changed or *)
(* removed.                                                                  *)
C1_ShotLogAppendOnly ==
    [][ /\ Len(shotData) = shotsFiredRef
        /\ Len(shotData') = shotsFiredRef'
        /\ Len(shotData') >= Len(shotData)
        /\ SubSeq(shotData', 1, Len(shotData)) = shotData
        /\ FireStep => Len(shotData') = Len(shotData) + 1
        /\ ~FireStep => shotData' = shotData ]_vars

\* Two shots, a hit and then a miss, with a frame update between renders.
C1_Witness ==
    /\ shotsFiredRef = 2
    /\ Len(shotData) = 2
    /\ shotData[1].hit
    /\ ~shotData[2].hit
    /\ \E i \in 1..Len(queue) : queue[i].type = "map"

----------------------------------------------------------------------------
(* C2: once the initial targets are spawned, the number of live targets is  *)
(* the same in every reachable state: 3 for GRIDSHOT, 1 for TRACKING and    *)
(* FLICKING.                                                                *)
C2_PoolSizeConstant == Len(LatestTargets) = InitialCount(scenario)

----------------------------------------------------------------------------
(* C3, as stated: when the ray satisfies the hit test for more than one     *)
(* live target, the target logged in the hit record and removed is the      *)
(* first such target in the iteration order of the list.                    *)
C3_FirstHitWins ==
    [][ HitStep =>
          \A cam \in Cameras :
             ( /\ Cardinality(HitIndices(targetsRef, cam)) > 1
               /\ Last(shotData') = ShotRecord(targetsRef, cam) )
             => LET first == targetsRef[SetMin(HitIndices(targetsRef, cam))]
                IN  /\ Last(shotData').targetId = first.id
                    /\ SubSeq(WrittenBack', 1, Len(WrittenBack') - 1)
                         = Survivors(targetsRef, first.id) ]_vars

(* C3, amended: when the ray satisfies the hit test for more than one live  *)
(* target, the id logged in the hit record is the id of the last such       *)
(* target in the iteration order of the list, and the list written back is  *)
(* the list read without the targets of that id, followed by one new target.*)
C3_LastHitWins ==
    [][ HitStep =>
          \A cam \in Cameras :
             ( /\ Cardinality(HitIndices(targetsRef, cam)) > 1
               /\ Last(shotData') = ShotRecord(targetsRef, cam) )
             => LET last == targetsRef[SetMax(HitIndices(targetsRef, cam))]
                IN  /\ Last(shotData').hit
                    /\ Last(shotData').targetId = last.id
                    /\ Len(WrittenBack') >= 1
                    /\ SubSeq(WrittenBack', 1, Len(WrittenBack') - 1)
                         = Survivors(targetsRef, last.id) ]_vars

\* A hit has just been logged for a ray that passes through two targets of
\* different ids: the log names the later one and the earlier one survives.
C3_Witness ==
    /\ shotData # <<>>
    /\ queue # <<>>
    /\ Last(queue).type = "set"
    /\ \E cam \in Cameras :
          /\ Cardinality(HitIndices(targetsRef, cam)) > 1
          /\ Last(shotData) = ShotRecord(targetsRef, cam)
          /\ LET first == targetsRef[SetMin(HitIndices(targetsRef, cam))]
                 last  == targetsRef[SetMax(HitIndices(targetsRef, cam))]
             IN  /\ first.id # last.id
                 /\ Last(shotData).hit
                 /\ Last(shotData).targetId = last.id
                 /\ WrittenBack[1] = first

----------------------------------------------------------------------------
(* C4: once a fire event has hit and removed a target, no later fire event  *)
(* resolves against that removed target: the target a fire hits is one of   *)
(* the targets that are live when it fires.                                 *)
C4_NoHitOnRemovedTarget ==
    [][ HitStep =>
          \E i \in 1..Len(LatestTargets) :
             LatestTargets[i].id = Last(shotData').targetId ]_vars

----------------------------------------------------------------------------
(* C5: every fire event resolves against the target list as left by all the *)
(* ticks that completed before it: when only frame updates are waiting for  *)
(* the next render, the record a fire logs is the one the resolution of its *)
(* ray against the latest list gives.                                       *)
C5_FireSeesLatestTargets ==
    [][ (FireStep /\ targetsRef # <<>> /\ \A i \in 1..Len(queue) : queue[i].type = "map") =>
          \A cam \in Cameras :
             Last(shotData') = ShotRecord(targetsRef, cam)
             => Last(shotData') = ShotRecord(LatestTargets, cam) ]_vars

----------------------------------------------------------------------------
(* C7: in every reachable state the ids of the live targets are pairwise    *)
(* distinct, whatever the outcomes of the id generation of the spawns.      *)
C7_UniqueLiveIds ==
    \A i, j \in 1..Len(LatestTargets) :
       i # j => LatestTargets[i].id # LatestTargets[j].id

----------------------------------------------------------------------------
(* C6: after the session has ended (onFinish was called) no further fire    *)
(* event is resolved: the shot log handed to the results, the score and     *)
(* shotsFired are not changed by a later mouse-down.                        *)
C6_NoFireAfterEnd ==
    [][ finishCalls > 0 =>
          /\ shotData' = shotData
          /\ scoreRef' = scoreRef
          /\ shotsFiredRef' = shotsFiredRef ]_vars

----------------------------------------------------------------------------
(* C8: in TRACKING a moving target never overshoots the horizontal bound:   *)
(* after every tick, whatever the elapsed time, the x coordinate of every   *)
(* live target lies within [-8, 8].                                         *)
C8_WithinBound ==
    \A i \in 1..Len(LatestTargets) :
       /\ LatestTargets[i].position[1] <= Bound
       /\ LatestTargets[i].position[1] >= -Bound

----------------------------------------------------------------------------
(* C9: the tick step rule.  A render that applies one frame update of       *)
(* elapsed time d takes a target at x with horizontal velocity v to x + v*d *)
(* with v unchanged if x + v*d is within [-8, 8], and otherwise to          *)
(* x + (-v)*d with velocity -v; x = 7.9, v = +3, d = 0.1 gives x = 7.6,     *)
(* v = -3.                                                                  *)
C9_TickStepRule ==
    [][ ( /\ Len(queue) = 1
          /\ queue[1].type = "map"
          /\ queue' = <<>> )
        => /\ Len(targets') = Len(targets)
           /\ \A i \in 1..Len(targets) :
                 LET x == targets[i].position[1]
                     v == targets[i].velocity[1]
                     d == queue[1].delta
                 IN  IF x + v * d <= 80 /\ x + v * d >= -80
                     THEN /\ targets'[i].position[1] = x + v * d
                          /\ targets'[i].velocity[1] = v
                     ELSE /\ targets'[i].position[1] = x - v * d
                          /\ targets'[i].velocity[1] = -v
           /\ LET t == TickTarget([ id |-> 1, position |-> <<79, 15, -100>>, active |-> TRUE,
                                    velocity |-> <<3, 0, 0>>, radius |-> 5 ], 1)
              IN  t.position[1] = 76 /\ t.velocity[1] = -3 ]_vars

\* A frame update of 4.1 s has been applied to a target at x = 8 moving right
\* at 2: it is reflected to x = -0.2 with velocity -2.
C9_Witness ==
    /\ queue = <<>>
    /\ effectPending
    /\ Len(targets) = 1
    /\ Len(targetsRef) = 1
    /\ targetsRef[1].position[1] = 80
    /\ targetsRef[1].velocity[1] = 2
    /\ targets[1].position[1] = -2
    /\ targets[1].velocity[1] = -2
    /\ targets[1].id = targetsRef[1].id

----------------------------------------------------------------------------
(* C10, as stated: after a hit the replacement is spawned by the spawn rule *)
(* used at session start for the scenario: it is a target the initial spawn *)
(* of the scenario can produce.                                             *)
C10_RespawnAsAtStart ==
    [][ HitStep =>
          \E l \in InitialTargetLists(scenario) :
             \E i \in 1..Len(l) :
                [ Last(WrittenBack') EXCEPT !.id = 0 ] = [ l[i] EXCEPT !.id = 0 ] ]_vars

(* C10, amended: after a hit the targets with the hit id are removed and    *)
(* exactly one replacement is appended; it has the radius and the velocity  *)
(* rule of the scenario (zero, or in TRACKING a horizontal speed of         *)
(* magnitude in [2, 4) of either sign) and is placed at a randomly drawn    *)
(* position in every scenario: in TRACKING it is not placed by the          *)
(* fixed-position rule that placed the initial target.                      *)
C10_RespawnRandomPlacement ==
    [][ HitStep =>
          LET new == Last(WrittenBack')
              h   == Last(shotData').targetId
          IN  /\ Len(WrittenBack') = Len(Survivors(targetsRef, h)) + 1
              /\ SubSeq(WrittenBack', 1, Len(WrittenBack') - 1) = Survivors(targetsRef, h)
              /\ new.position \in RandPositions
              /\ new.active
              /\ new.radius = (IF scenario = "FLICKING" THEN 3 ELSE 5)
              /\ new.velocity[2] = 0 /\ new.velocity[3] = 0
              /\ IF scenario = "TRACKING"
                 THEN Abs(new.velocity[1]) >= 2 /\ Abs(new.velocity[1]) < 4
                 ELSE new.velocity[1] = 0 ]_vars

\* In TRACKING the initial target, placed at the fixed position, has just
\* been hit and its replacement waits in the queue at another position.
C10_Witness ==
    /\ scenario = "TRACKING"
    /\ Len(shotData) = 1
    /\ shotData[1].hit
    /\ Len(targetsRef) = 1
    /\ targetsRef[1].position = FixedPos
    /\ queue # <<>>
    /\ Last(queue).type = "set"
    /\ Len(WrittenBack) = 1
    /\ WrittenBack[1].position # FixedPos

----------------------------------------------------------------------------
(* C11, as stated: if the fired ray passes through the exact centre of a    *)
(* live target of radius > 0, the shot is a hit on that target: its id is   *)
(* the one in the hit record and it is removed from the list, whatever the  *)
(* positions of the other live targets.                                     *)
C11_CenterRayHitsThatTarget ==
    [][ FireStep =>
          \A cam \in ShootCameras :
             FiredWith(cam) =>
                \A i \in 1..Len(targetsRef) :
                   (Centered(targetsRef[i], cam) /\ targetsRef[i].radius > 0)
                   => /\ Last(shotData').hit
                      /\ HitStep
                      /\ Last(shotData').targetId = targetsRef[i].id
                      /\ \A k \in 1..(Len(WrittenBack') - 1) :
                            WrittenBack'[k].id # targetsRef[i].id ]_vars

(* C11, amended: if the fired ray passes through the exact centre of a live *)
(* target of radius > 0, the shot is always a hit and the score grows by    *)
(* one; the target recorded and removed is the last target of the list that *)
(* passes the hit test, so it is the centred target when no later target of *)
(* the list passes the hit test too.                                        *)
C11_CenterRayIsAHit ==
    [][ FireStep =>
          \A cam \in ShootCameras :
             FiredWith(cam) =>
                \A i \in 1..Len(targetsRef) :
                   (Centered(targetsRef[i], cam) /\ targetsRef[i].radius > 0)
                   => LET last == SetMax(HitIndices(targetsRef, cam))
                      IN  /\ i \in HitIndices(targetsRef, cam)
                          /\ Last(shotData').hit
                          /\ HitStep
                          /\ Last(shotData').targetId = targetsRef[last].id
                          /\ SubSeq(WrittenBack', 1, Len(WrittenBack') - 1)
                               = Survivors(targetsRef, targetsRef[last].id)
                          /\ (\A j \in HitIndices(targetsRef, cam) : j <= i)
                             => /\ Last(shotData').targetId = targetsRef[i].id
                                /\ \A k \in 1..(Len(WrittenBack') - 1) :
                                      WrittenBack'[k].id # targetsRef[i].id ]_vars

\* A hit has just been logged for a ray through the centre of the third of
\* three targets with different ids: it is the one recorded, and the other two
\* stay in the list.
C11_Witness ==
    /\ Len(targetsRef) = 3
    /\ shotData # <<>>
    /\ Last(shotData).hit
    /\ queue # <<>>
    /\ Last(queue).type = "set"
    /\ \E cam \in ShootCameras :
          /\ Centered(targetsRef[3], cam)
          /\ Last(shotData) = ShotRecord(targetsRef, cam)
          /\ Last(shotData).targetId = targetsRef[3].id
          /\ targetsRef[1].id # targetsRef[3].id
          /\ targetsRef[2].id # targetsRef[3].id
          /\ targetsRef[1].position # targetsRef[3].position
          /\ Len(WrittenBack) = 3
          /\ WrittenBack[1] = targetsRef[1]
          /\ WrittenBack[2] = targetsRef[2]

----------------------------------------------------------------------------
----------------------------------------------------------------------------
(* C13: the session ends exactly once and only through the countdown.  The  *)
(* remaining time starts at 30 and every change of it is a decrement by     *)
(* one; onFinish is called at the step that brings it to 0, never earlier   *)
(* and never twice, with the score, shotsFired and shot log of that moment; *)
(* the component is unmounted only after that; and with a timer that keeps  *)
(* firing every session reaches that point.                                 *)
C13_EndsOnceByCountdown ==
    /\ (timeLeft = 30 /\ finishCalls = 0)
    /\ [][ /\ timeLeft' # timeLeft => timeLeft' = timeLeft - 1
           /\ finishCalls' # finishCalls =>
                 /\ finishCalls = 0
                 /\ finishCalls' = 1
                 /\ timeLeft = 1
                 /\ timeLeft' = 0
                 /\ lastStats'.score = scoreRef
                 /\ lastStats'.shotsFired = shotsFiredRef
                 /\ lastStats'.shotsHit = scoreRef
                 /\ shotData' = shotData
                 /\ scoreRef' = scoreRef
                 /\ shotsFiredRef' = shotsFiredRef
           /\ (timeLeft' = 0 /\ timeLeft # 0) => finishCalls' = finishCalls + 1
           /\ mounted' # mounted => finishCalls = 1 ]_vars
    /\ [](finishCalls <= 1)
    /\ []((finishCalls = 1) <=> (timeLeft = 0))
    /\ <>(finishCalls = 1)

\* The countdown has run out after a hit and a miss: onFinish was called once
\* with the counters of the two shots.
C13_Witness ==
    /\ finishCalls = 1
    /\ timeLeft = 0
    /\ mounted
    /\ lastStats # <<>>
    /\ lastStats.shotsFired = 2
    /\ lastStats.score = 1
    /\ shotsFiredRef = 2
    /\ scoreRef = 1
    /\ Len(shotData) = 2

----------------------------------------------------------------------------
(* C14: for every fire the intended target is present exactly when the list *)
(* read is not empty, on hits as well as on misses; it is the target at the *)
(* minimal angle from the ray direction and, among targets at the same      *)
(* minimal angle, the first of the list; a miss is logged with the offsets  *)
(* of that target.                                                          *)
C14_IntendedTarget ==
    [][ FireStep =>
          \A cam \in ShootCameras :
             LET r == Resolve(targetsRef, cam)
             IN  /\ (r.closest = 0) <=> (targetsRef = <<>>)
                 /\ targetsRef # <<>> => r.closest = MinAngleFirst(targetsRef, cam)
                 /\ (FiredWith(cam) /\ ~Last(shotData').hit /\ targetsRef # <<>>)
                    => Last(shotData') =
                          MissRecord(targetsRef[MinAngleFirst(targetsRef, cam)], cam) ]_vars

\* A miss has just been logged with two targets at different places at the
\* same, minimal angle from the ray: the record is that of the first of them.
C14_Witness ==
    /\ shotData # <<>>
    /\ ~Last(shotData).hit
    /\ \E cam \in ShootCameras :
          \E i, j \in 1..Len(targetsRef) :
             /\ i < j
             /\ i = MinAngleFirst(targetsRef, cam)
             /\ ~AngleLess(targetsRef[i], targetsRef[j], cam)
             /\ targetsRef[i].position # targetsRef[j].position
             /\ Last(shotData) = MissRecord(targetsRef[i], cam)
             /\ Last(shotData) # MissRecord(targetsRef[j], cam)

----------------------------------------------------------------------------
(* C15: for a miss with an intended target the record carries               *)
(* relativeX = dot(diff, camera right), relativeY = dot(diff, camera up)    *)
(* and distanceFromCenter = |diff|, diff being the point where the line of  *)
(* the ray crosses the plane through the centre of the intended target with *)
(* the view direction as normal, minus that centre, and targetVelocityX is  *)
(* the horizontal velocity of the intended target; also for targets behind  *)
(* the origin of the ray.                                                   *)
C15_MissOffsetsOnTheLine ==
    [][ FireStep =>
          \A cam \in ShootCameras :
             FiredWith(cam) =>
                LET r == Resolve(targetsRef, cam)
                IN  (~r.hitFound /\ r.closest # 0)
                    => LET t == targetsRef[r.closest]
                           P == t.position
                           s == Dot(P, cam.fwd)
                       IN  /\ ~Last(shotData').hit
                           /\ Last(shotData').relativeX =
                                 s * Dot(cam.fwd, cam.right) - CamNormSq * Dot(P, cam.right)
                           /\ Last(shotData').relativeY =
                                 s * Dot(cam.fwd, cam.up) - CamNormSq * Dot(P, cam.up)
                           /\ Last(shotData').distanceFromCenter =
                                 CamNormSq * NormSq(P) - s * s
                           /\ Last(shotData').targetVelocityX = t.velocity[1] ]_vars

----------------------------------------------------------------------------
(* C16: a fire with an empty target list is not an error: the pass finds no *)
(* hit and no intended target, exactly one miss record without offset       *)
(* fields is appended, and the score and the target list are unchanged.     *)
C16_EmptyListMiss ==
    [][ (FireStep /\ targetsRef = <<>>) =>
          /\ \A cam \in ShootCameras :
                /\ ~Resolve(targetsRef, cam).hitFound
                /\ Resolve(targetsRef, cam).closest = 0
          /\ Len(shotData') = Len(shotData) + 1
          /\ SubSeq(shotData', 1, Len(shotData)) = shotData
          /\ Last(shotData') = [ hit |-> FALSE ]
          /\ scoreRef' = scoreRef
          /\ score' = score
          /\ targets' = targets
          /\ queue' = queue
          /\ targetsRef' = targetsRef ]_vars

\* The mouse button went down before the first list reached targetsRef: one
\* record without offsets, no score.
C16_Witness ==
    /\ targetsRef = <<>>
    /\ shotsFiredRef = 1
    /\ shotData = << [ hit |-> FALSE ] >>
    /\ scoreRef = 0
    /\ Len(queue) = 1

----------------------------------------------------------------------------
(* C17: for a shot log without a miss record (empty, or hits only) and any  *)
(* scenario, the analysis has left = right = top = bottom = overshoots =    *)
(* undershoots = 0 and the recommendation "Perfect run! Your sensitivity is *)
(* well-tuned."; no other recommendation is produced.                       *)
C17_PerfectRun ==
    [][ (ResultsStep /\ MissIndices(shotData) = {}) =>
          analysis' = [ left |-> 0, right |-> 0, top |-> 0, bottom |-> 0,
                        overshoots |-> 0, undershoots |-> 0,
                        recommendation |->
                            "Perfect run! Your sensitivity is well-tuned." ] ]_vars

\* The results of a session of three hits and no miss.
C17_Witness ==
    /\ analysis # <<>>
    /\ Len(shotData) = 3
    /\ \A i \in 1..3 : shotData[i].hit
    /\ lastStats.score = 3
    /\ analysis.recommendation = "Perfect run! Your sensitivity is well-tuned."
    /\ analysis.left = 0
    /\ analysis.overshoots = 0

----------------------------------------------------------------------------
(* C18: in TRACKING with at least one miss the recommendation is the        *)
(* overshoot message iff overshoots > 1.5 * undershoots and overshoots > 3; *)
(* otherwise the undershoot message iff undershoots > 1.5 * overshoots and  *)
(* undershoots > 3; otherwise the balanced message.  The directional,       *)
(* vertical-drift and scatter messages are never produced.  Five misses     *)
(* ahead of a target moving right (5 overshoots, 0 undershoots) give the    *)
(* overshoot message.                                                       *)
C18_TrackingRecommendation ==
    [][ (ResultsStep /\ lastStats.scenario = "TRACKING" /\ MissIndices(shotData) # {}) =>
          LET o    == analysis'.overshoots
              u    == analysis'.undershoots
              over == 2 * o > 3 * u /\ o > 3
              undr == ~over /\ 2 * u > 3 * o /\ u > 3
          IN  /\ (analysis'.recommendation = OvershootMsg) <=> over
              /\ (analysis'.recommendation = UndershootMsg) <=> undr
              /\ (analysis'.recommendation = BalancedMsg) <=> (~over /\ ~undr)
              /\ analysis'.recommendation \notin { LeftMsg, RightMsg, VerticalMsg,
                                                    ScatterMsg, PerfectMsg }
              /\ shotData = Repeat(MissAt(20, 0, 2), 5)
                 => /\ o = 5
                    /\ u = 0
                    /\ analysis'.recommendation = OvershootMsg ]_vars

\* The results of a TRACKING session of five misses, each 2.0 ahead of a
\* target moving right.
C18_Witness ==
    /\ analysis # <<>>
    /\ lastStats.scenario = "TRACKING"
    /\ Len(shotData) = 5
    /\ WithOffset(shotData, "relativeX") = 1..5
    /\ WithOffset(shotData, "targetVelocityX") = 1..5
    /\ \A i \in 1..5 :
          /\ shotData[i].relativeX > 0
          /\ shotData[i].targetVelocityX > 0
    /\ analysis.overshoots = 5
    /\ analysis.undershoots = 0
    /\ analysis.recommendation =
          "You consistently OVERSHOOT moving targets. \nTry LOWERING your sensitivity or DPI slightly."

----------------------------------------------------------------------------
(* C19: in the other scenarios with at least one miss the recommendation is *)
(* that of the first branch that matches: |left - right| > 0.5 * misses     *)
(* gives the LEFT message when left > right and the RIGHT message when      *)
(* right > left; else |top - bottom| > 0.5 * misses gives the vertical      *)
(* message; else a mean of |relativeX| over all misses > 1.5 gives the      *)
(* scatter message; else the balanced message.  Every miss record counts in *)
(* misses, those without offsets too.  Ten misses with left = 8 and         *)
(* right = 2 name LEFT.                                                     *)
C19_AimRecommendation ==
    [][ (ResultsStep /\ lastStats.scenario # "TRACKING" /\ MissIndices(shotData) # {}) =>
          LET total == Cardinality(MissIndices(shotData))
              l     == analysis'.left
              r     == analysis'.right
              t     == analysis'.top
              b     == analysis'.bottom
              rec   == analysis'.recommendation
          IN  /\ IF 2 * Abs(l - r) > total
                 THEN /\ l > r => rec = LeftMsg
                      /\ r > l => rec = RightMsg
                      /\ l # r
                 ELSE IF 2 * Abs(t - b) > total
                 THEN rec = VerticalMsg
                 ELSE IF 2 * SpreadUpTo(shotData, Len(shotData)) > 3 * OffsetUnit * total
                 THEN rec = ScatterMsg
                 ELSE rec = BalancedMsg
              /\ (total = 10 /\ l = 8 /\ r = 2) => rec = LeftMsg ]_vars

\* The results of a GRIDSHOT session of ten misses, eight to the left and two
\* to the right.
C19_Witness ==
    /\ analysis # <<>>
    /\ lastStats.scenario = "GRIDSHOT"
    /\ Len(shotData) = 10
    /\ Cardinality(MissIndices(shotData)) = 10
    /\ WithOffset(shotData, "relativeX") = 1..10
    /\ Cardinality({ i \in 1..10 : shotData[i].relativeX < 0 }) = 8
    /\ Cardinality({ i \in 1..10 : shotData[i].relativeX > 0 }) = 2
    /\ analysis.left = 8
    /\ analysis.right = 2
    /\ analysis.recommendation =
          "You consistently miss to the LEFT. Check your initial crosshair placement or grip stability."

----------------------------------------------------------------------------
(* C20: the directional counts are taken over the miss records only: left   *)
(* counts the misses with relativeX < 0, right those with relativeX > 0,    *)
(* top those with relativeY > 0, bottom those with relativeY < 0; a hit, a  *)
(* miss without offsets and a miss with a zero offset on the axis are in    *)
(* neither bucket of the axis, so left + right <= misses and                *)
(* top + bottom <= misses.                                                  *)
C20_DirectionalCounts ==
    [][ ResultsStep =>
          LET X == WithOffset(shotData, "relativeX")
              Y == WithOffset(shotData, "relativeY")
          IN  /\ analysis'.left = Cardinality({ i \in X : shotData[i].relativeX < 0 })
              /\ analysis'.right = Cardinality({ i \in X : shotData[i].relativeX > 0 })
              /\ analysis'.top = Cardinality({ i \in Y : shotData[i].relativeY > 0 })
              /\ analysis'.bottom = Cardinality({ i \in Y : shotData[i].relativeY < 0 })
              /\ analysis'.left + analysis'.right <= Cardinality(MissIndices(shotData))
              /\ analysis'.top + analysis'.bottom <= Cardinality(MissIndices(shotData)) ]_vars

\* The results of a session with a hit, a miss without offsets, a miss left of
\* the target and a miss straight above it: one left, one top, nothing else.
C20_Witness ==
    /\ analysis # <<>>
    /\ Len(shotData) = 4
    /\ shotData[1].hit
    /\ shotData[2] = [ hit |-> FALSE ]
    /\ WithOffset(shotData, "relativeX") = {3, 4}
    /\ WithOffset(shotData, "relativeY") = {3, 4}
    /\ shotData[3].relativeX < 0 /\ shotData[3].relativeY = 0
    /\ shotData[4].relativeX = 0 /\ shotData[4].relativeY > 0
    /\ analysis.left = 1
    /\ analysis.right = 0
    /\ analysis.top = 1
    /\ analysis.bottom = 0

----------------------------------------------------------------------------
(* C21: overshoots and undershoots are 0 in every scenario other than       *)
(* TRACKING, whatever the log holds.  In TRACKING, over the misses that     *)
(* carry a targetVelocityX, overshoots counts those whose relativeX and     *)
(* targetVelocityX are both > 0 or both < 0 and undershoots those where the *)
(* two have strictly opposite signs; a miss with a zero velocity or a zero  *)
(* relativeX is in neither, so overshoots + undershoots <= misses.          *)
C21_TrackingCounts ==
    [][ ResultsStep =>
          LET V == WithOffset(shotData, "targetVelocityX")
              x(i) == IF i \in WithOffset(shotData, "relativeX")
                      THEN shotData[i].relativeX ELSE 0
              v(i) == shotData[i].targetVelocityX
          IN  IF lastStats.scenario # "TRACKING"
              THEN analysis'.overshoots = 0 /\ analysis'.undershoots = 0
              ELSE /\ analysis'.overshoots =
                        Cardinality({ i \in V : \/ (v(i) > 0 /\ x(i) > 0)
                                                \/ (v(i) < 0 /\ x(i) < 0) })
                   /\ analysis'.undershoots =
                        Cardinality({ i \in V : \/ (v(i) > 0 /\ x(i) < 0)
                                                \/ (v(i) < 0 /\ x(i) > 0) })
                   /\ analysis'.overshoots + analysis'.undershoots
                        <= Cardinality(MissIndices(shotData)) ]_vars

\* The results of a TRACKING session with a hit, a miss without offsets, a
\* miss ahead of the target, a miss behind it and a miss straight above it:
\* one overshoot and one undershoot among four misses.
C21_Witness ==
    /\ analysis # <<>>
    /\ lastStats.scenario = "TRACKING"
    /\ Len(shotData) = 5
    /\ shotData[1].hit
    /\ shotData[2] = [ hit |-> FALSE ]
    /\ WithOffset(shotData, "targetVelocityX") = {3, 4, 5}
    /\ WithOffset(shotData, "relativeX") = {3, 4, 5}
    /\ shotData[3].relativeX > 0 /\ shotData[3].targetVelocityX > 0
    /\ shotData[4].relativeX < 0 /\ shotData[4].targetVelocityX > 0
    /\ shotData[5].relativeX = 0 /\ shotData[5].targetVelocityX > 0
    /\ analysis.overshoots = 1
    /\ analysis.undershoots = 1

----------------------------------------------------------------------------
(* C22: on a hit the score grows by exactly one, a hit record with the id   *)
(* of the destroyed target is appended, that id is the id of a target that  *)
(* was live when the shot was fired, and no target of that id is in the     *)
(* target list that results from the fire.                                  *)
C22_HitRemovesLiveTarget ==
    [][ HitStep =>
          /\ scoreRef' = scoreRef + 1
          /\ Len(shotData') = Len(shotData) + 1
          /\ Last(shotData').hit
          /\ \E i \in 1..Len(LatestTargets) :
                LatestTargets[i].id = Last(shotData').targetId
          /\ \A i \in 1..Len(LatestTargets') :
                LatestTargets'[i].id # Last(shotData').targetId ]_vars

----------------------------------------------------------------------------
(* C23: in every reachable state every live target has radius 0.3 in        *)
(* FLICKING and 0.5 in the other scenarios; in GRIDSHOT and FLICKING its    *)
(* velocity is zero; in TRACKING its velocity has zero Y and Z components   *)
(* and a horizontal component of magnitude in [2, 4], and the ticks a       *)
(* render applies keep that magnitude: they can only change its sign.       *)
C23_TargetShape ==
    /\ [](\A i \in 1..Len(LatestTargets) : ShapeOfScenario(LatestTargets[i]))
    /\ [](\A i \in 1..Len(targets) : ShapeOfScenario(targets[i]))
    /\ [](\A i \in 1..Len(targetsRef) : ShapeOfScenario(targetsRef[i]))
    /\ [][ ( /\ queue # <<>>
             /\ queue' = <<>>
             /\ \A k \in 1..Len(queue) : queue[k].type = "map" )
           => /\ Len(targets') = Len(targets)
              /\ \A i \in 1..Len(targets) :
                    /\ targets'[i].id = targets[i].id
                    /\ Abs(targets'[i].velocity[1]) = Abs(targets[i].velocity[1])
                    /\ targets'[i].radius = targets[i].radius ]_vars

\* A render has just applied a tick that reflected the TRACKING target at the
\* bound: the velocity the sync effect last saw, with the other sign.
C23_Witness ==
    /\ scenario = "TRACKING"
    /\ queue = <<>>
    /\ effectPending
    /\ Len(targets) = 1
    /\ Len(targetsRef) = 1
    /\ targets[1].id = targetsRef[1].id
    /\ targets[1].position[2] = targetsRef[1].position[2]
    /\ targets[1].position[3] = targetsRef[1].position[3]
    /\ targets[1].velocity = << -targetsRef[1].velocity[1], 0, 0 >>
    /\ Abs(targets[1].velocity[1]) = 2
    /\ targets[1].radius = 5

----------------------------------------------------------------------------
(* C24: a tick changes nothing but the x coordinate and the sign of the     *)
(* horizontal velocity of the live targets: the y, z, id, radius and active *)
(* flag of each target, the number and the order of the targets, the score, *)
(* shotsFired and the shot log stay as they are; in GRIDSHOT and FLICKING   *)
(* the frame callback queues no update at all.                              *)
C24_TickOnlyMovesX ==
    /\ [](scenario # "TRACKING" => \A k \in 1..Len(queue) : queue[k].type = "set")
    /\ [][ TickStep =>
             /\ scenario = "TRACKING"
             /\ UNCHANGED << targets, targetsRef, score, shotsFired, scoreRef,
                             shotsFiredRef, shotData, timeLeft, finishCalls >>
             /\ Len(LatestTargets') = Len(LatestTargets)
             /\ \A i \in 1..Len(LatestTargets) :
                   LET old == LatestTargets[i]
                       new == LatestTargets'[i]
                   IN  /\ new.id = old.id
                       /\ new.radius = old.radius
                       /\ new.active = old.active
                       /\ new.position[2] = old.position[2]
                       /\ new.position[3] = old.position[3]
                       /\ new.velocity[2] = old.velocity[2]
                       /\ new.velocity[3] = old.velocity[3]
                       /\ new.velocity[1] \in { old.velocity[1], -old.velocity[1] } ]_vars

\* A tick of 4.1 s waits for the next render after a shot was logged: it moves
\* the TRACKING target along x and leaves its height and depth alone.
C24_Witness ==
    /\ scenario = "TRACKING"
    /\ queue = << [ type |-> "map", delta |-> 41 ] >>
    /\ Len(targets) = 1
    /\ shotData # <<>>
    /\ LatestTargets[1].position =
          << targets[1].position[1] + 41 * targets[1].velocity[1],
             targets[1].position[2], targets[1].position[3] >>
    /\ LatestTargets[1].velocity = targets[1].velocity
    /\ LatestTargets[1].id = targets[1].id

----------------------------------------------------------------------------
(* C25: the stats built at the end of the session hold the shotsHit and     *)
(* shotsFired the game reports at that moment; their accuracy is 0 when     *)
(* shotsFired is 0 and shotsHit / shotsFired * 100 otherwise (kept as the   *)
(* pair of numerator and denominator), and lies between 0 and 100.          *)
C25_Accuracy ==
    [][ FinishStep =>
          LET st == lastStats'
          IN  /\ st.shotsFired = shotsFiredRef
              /\ st.shotsHit = scoreRef
              /\ st.accuracy[2] > 0
              /\ IF st.shotsFired = 0
                 THEN st.accuracy[1] = 0
                 ELSE st.accuracy = << st.shotsHit * 100, st.shotsFired >>
              /\ st.accuracy[1] >= 0
              /\ st.accuracy[1] <= 100 * st.accuracy[2] ]_vars

\* The session has ended after a hit and a miss: accuracy 100 / 2.
C25_Witness ==
    /\ finishCalls = 1
    /\ lastStats # <<>>
    /\ lastStats.shotsFired = 2
    /\ lastStats.shotsHit = 1
    /\ lastStats.accuracy = << 100, 2 >>

----------------------------------------------------------------------------
(* C26: in every reachable state the score (scoreRef) is the number of hit  *)
(* records of the shot log, shotsFired (shotsFiredRef) the number of all    *)
(* its records, and score <= shotsFired; the shotsHit and the score passed  *)
(* to onFinish are equal, and equal to the number of hit records of the log *)
(* passed with them.                                                        *)
C26_CountersMatchLog ==
    /\ [](scoreRef = HitCount(shotData))
    /\ [](shotsFiredRef = Len(shotData))
    /\ [](scoreRef <= shotsFiredRef)
    /\ [][ FinishStep =>
             /\ lastStats'.shotsHit = lastStats'.score
             /\ lastStats'.score = HitCount(shotData')
             /\ lastStats'.shotsFired = Len(shotData') ]_vars

\* The results are shown for a session of a hit followed by a miss.
C26_Witness ==
    /\ ~mounted
    /\ finishCalls = 1
    /\ Len(shotData) = 2
    /\ shotData[1].hit
    /\ ~shotData[2].hit
    /\ scoreRef = 1
    /\ shotsFiredRef = 2
    /\ lastStats.score = 1
    /\ lastStats.shotsHit = 1

====
